---- MODULE Spec2Model ----
(***************************************************************************)
(* Model of gdsfactory/routing/add_electrical_pads_shortest.py:            *)
(* add_electrical_pads_shortest builds a new Component c holding a         *)
(* reference to the source component, one pad per selected port, one       *)
(* route_quad per selected port (for the four supported orientations) and  *)
(* a reconciled port set.                                                  *)
(*                                                                         *)
(* Lengths are integers (the source uses floats); pad sizes are even so    *)
(* that xsize / 2 is exact.                                                *)
(***************************************************************************)
EXTENDS Integers, Sequences, FiniteSets, TLC

VARIABLES component, pad, args, pc, c, ports, pad_port_spacing, i, error, returned

vars == <<component, pad, args, pc, c, ports, pad_port_spacing, i, error, returned>>

(* ---------------------------- bounds --------------------------------- *)

\* largest number of ports on the source component
MaxPorts == 3

\* longest port_names list passed by the caller
MaxNames == 2

(* ------------------------- input universe ---------------------------- *)

\* ports a source component may carry: name, position, own orientation, type
PortCatalogue ==
    { [name |-> "e1", x |-> 0, y |-> 0, orientation |-> 180, port_type |-> "electrical"],
      [name |-> "e2", x |-> 200, y |-> 0, orientation |-> 0, port_type |-> "electrical"],
      [name |-> "o1", x |-> 100, y |-> 10, orientation |-> 90, port_type |-> "optical"],
      [name |-> "elec-wire-1", x |-> 100, y |-> 0, orientation |-> 270, port_type |-> "electrical"] }

ComponentNames == {"wire", "heater"}

\* ordered port mappings with unique names, at most MaxPorts entries
PortMaps ==
    UNION { { s \in [1..n -> PortCatalogue] : \A a, b \in 1..n : a # b => s[a] # s[b] }
            : n \in 0..MaxPorts }

\* pad cells: a rectangle centred on its own origin, info["xsize"], info["ysize"]
PadSpecs == { [xsize |-> 20, ysize |-> 20], [xsize |-> 20, ysize |-> 40] }

Spacings == {0, 50}

Orientations == {0, 90, 180, 270, 45}

SelectFunctions == {"electrical", "optical"}

NameUniverse == {"e1", "e2", "nonexistent"}

\* port_names: None, or a list of at most MaxNames names
PortNameLists ==
    { [isNone |-> TRUE, names |-> <<>>] } \cup
    { [isNone |-> FALSE, names |-> s] :
        s \in UNION { [1..n -> NameUniverse] : n \in 0..MaxNames } }

(* ----------------------------- helpers ------------------------------- *)

Names(seq) == { seq[k].name : k \in DOMAIN seq }

\* gdsfactory.port.select_ports(ports, port_type=...): filters the mapping,
\* keeping its order
select_ports(kind, portmap) ==
    SelectSeq(portmap, LAMBDA p : p.port_type = kind)

\* ref[port_name]: the reference's port of that name
RefHasPort(portmap, name) == name \in Names(portmap)

\* `if port_names` (line 52): None and the empty list are falsy
PortNamesIgnored(port_names) == FALSE

PortNamesGiven(port_names) == ~port_names.isNone /\ Len(port_names.names) > 0

\* pad_port_spacing += pad.info["xsize"] / 2   (line 57)
SpacingWithoutPad(spacing, padspec) == spacing

AddPadHalfSize(spacing, padspec) == spacing + (padspec.xsize \div 2)

\* lines 62-77: where the pad's centre is put; a pad that no branch moves
\* stays where `c << pad` created it, centred on the origin
PadCenterPerPort(port_orientation, port, spacing) ==
    IF port.orientation = 0 THEN [x |-> port.x + spacing, y |-> port.y]
    ELSE IF port.orientation = 180 THEN [x |-> port.x - spacing, y |-> port.y]
    ELSE IF port.orientation = 90 THEN [x |-> port.x, y |-> port.y + spacing]
    ELSE IF port.orientation = 270 THEN [x |-> port.x, y |-> port.y - spacing]
    ELSE [x |-> 0, y |-> 0]

PadCenter(port_orientation, port, spacing) ==
    IF port_orientation = 0 THEN [x |-> port.x + spacing, y |-> port.y]
    ELSE IF port_orientation = 180 THEN [x |-> port.x - spacing, y |-> port.y]
    ELSE IF port_orientation = 90 THEN [x |-> port.x, y |-> port.y + spacing]
    ELSE IF port_orientation = 270 THEN [x |-> port.x, y |-> port.y - spacing]
    ELSE [x |-> 0, y |-> 0]

\* lines 65, 69, 73, 77: the pad pin handed to route_quad, "none" when no
\* branch is taken
RoutedPinDefault90(port_orientation) ==
    IF port_orientation = 0 THEN "e1"
    ELSE IF port_orientation = 180 THEN "e3"
    ELSE IF port_orientation = 270 THEN "e2"
    ELSE "e4"

RoutedPinSameSide(port_orientation) ==
    IF port_orientation = 0 THEN "e3"
    ELSE IF port_orientation = 180 THEN "e1"
    ELSE IF port_orientation = 90 THEN "e2"
    ELSE IF port_orientation = 270 THEN "e4"
    ELSE "none"

RoutedPin(port_orientation) ==
    IF port_orientation = 0 THEN "e1"
    ELSE IF port_orientation = 180 THEN "e3"
    ELSE IF port_orientation = 90 THEN "e4"
    ELSE IF port_orientation = 270 THEN "e2"
    ELSE "none"

\* line 79: the pad pin exposed on the output
ExposedPin == "pad"

\* position of a pad pin relative to the pad centre: "pad" in the centre,
\* e1 west, e2 north, e3 east, e4 south
PadPinOffset(padspec, pin) ==
    IF pin = "e1" THEN [x |-> 0 - (padspec.xsize \div 2), y |-> 0]
    ELSE IF pin = "e3" THEN [x |-> padspec.xsize \div 2, y |-> 0]
    ELSE IF pin = "e2" THEN [x |-> 0, y |-> padspec.ysize \div 2]
    ELSE IF pin = "e4" THEN [x |-> 0, y |-> 0 - (padspec.ysize \div 2)]
    ELSE [x |-> 0, y |-> 0]

\* line 79: f"elec-{component.name}-{i+1}", idx is enumerate's 0-based index
PadPortNameZeroBased(component_name, idx) ==
    "elec-" \o component_name \o "-" \o ToString(idx)

PadPortName(component_name, idx) ==
    "elec-" \o component_name \o "-" \o ToString(idx + 1)

\* Component.add_ports: index of the first port whose name is already taken,
\* 0 when there is none
FirstDuplicate(cports, newports) ==
    LET dups == { k \in DOMAIN newports : newports[k].name \in Names(cports) }
    IN IF dups = {} THEN 0 ELSE CHOOSE k \in dups : \A m \in dups : k <= m

\* a port of the reference as it appears on the output
RefPort(p) == [name |-> p.name, x |-> p.x, y |-> p.y, pin |-> "ref"]

RefPorts(portmap) == [k \in DOMAIN portmap |-> RefPort(portmap[k])]

\* lines 83-84: c.ports.pop(port.name) for every processed port
KeepAllPorts(cports, selected) == cports

RemovePorts(cports, selected) ==
    SelectSeq(cports, LAMBDA p : p.name \notin Names(selected))

(* ------------------------------ state -------------------------------- *)

EmptyComponent ==
    [ref |-> FALSE, pads |-> <<>>, routes |-> <<>>, ports |-> <<>>, child_info |-> FALSE]

Init ==
    /\ component \in [name : ComponentNames, ports : PortMaps]
    /\ pad \in PadSpecs
    /\ args \in [pad_port_spacing : Spacings, select_ports : SelectFunctions,
                 port_names : PortNameLists, port_orientation : Orientations]
    /\ pc = "start"
    /\ c = EmptyComponent
    /\ ports = <<>>
    /\ pad_port_spacing = args.pad_port_spacing
    /\ i = 0
    /\ error = "none"
    /\ returned = FALSE

(* ----------------------------- actions ------------------------------- *)

\* lines 46-55: create c, reference the component, choose the ports
SelectPorts ==
    /\ pc = "start"
    /\ c' = [c EXCEPT !.ref = TRUE]
    /\ IF PortNamesGiven(args.port_names)
       THEN IF \E k \in DOMAIN args.port_names.names :
                  ~RefHasPort(component.ports, args.port_names.names[k])
            THEN \* ref[port_name] fails inside the comprehension of line 51
                 /\ error' = "LookupError"
                 /\ pc' = "done"
                 /\ ports' = ports
            ELSE \* line 51 built a list; line 55 calls .values() on it
                 /\ error' = "AttributeError"
                 /\ pc' = "done"
                 /\ ports' = ports
       ELSE /\ ports' = select_ports(args.select_ports, component.ports)
            /\ pc' = "spacing"
            /\ error' = error
    /\ UNCHANGED <<component, pad, args, pad_port_spacing, i, returned>>

\* line 57
AddPadSpacing ==
    /\ pc = "spacing"
    /\ pad_port_spacing' = AddPadHalfSize(pad_port_spacing, pad)
    /\ pc' = "loop"
    /\ UNCHANGED <<component, pad, args, c, ports, i, error, returned>>

\* lines 59-79: one iteration of the loop over the selected ports
PlacePad ==
    /\ pc = "loop"
    /\ i < Len(ports)
    /\ LET port == ports[i + 1]
           center == PadCenter(args.port_orientation, port, pad_port_spacing)
           pin == RoutedPin(args.port_orientation)
           pinpos == PadPinOffset(pad, pin)
           exposed == PadPinOffset(pad, ExposedPin)
           route == [port |-> port.name, pin |-> pin,
                     x |-> center.x + pinpos.x, y |-> center.y + pinpos.y]
           newport == [name |-> PadPortName(component.name, i),
                       x |-> center.x + exposed.x, y |-> center.y + exposed.y,
                       pin |-> ExposedPin]
       IN c' = [c EXCEPT
                  !.pads = Append(@, [x |-> center.x, y |-> center.y, port |-> port.name]),
                  !.routes = IF pin = "none" THEN @ ELSE Append(@, route),
                  !.ports = Append(@, newport)]
    /\ i' = i + 1
    /\ UNCHANGED <<component, pad, args, pc, ports, pad_port_spacing, error, returned>>

\* the loop of line 59 is exhausted
EndLoop ==
    /\ pc = "loop"
    /\ i = Len(ports)
    /\ pc' = "add_ports"
    /\ UNCHANGED <<component, pad, args, c, ports, pad_port_spacing, i, error, returned>>

\* line 81: c.add_ports(ref.ports)
AddPorts ==
    /\ pc = "add_ports"
    /\ LET new == RefPorts(component.ports)
           dup == FirstDuplicate(c.ports, new)
       IN IF dup = 0
          THEN /\ c' = [c EXCEPT !.ports = @ \o new]
               /\ pc' = "pop"
               /\ error' = error
          ELSE /\ c' = [c EXCEPT !.ports = @ \o SubSeq(new, 1, dup - 1)]
               /\ pc' = "done"
               /\ error' = "ValueError"
    /\ UNCHANGED <<component, pad, args, ports, pad_port_spacing, i, returned>>

\* lines 83-84, with the source component's own port mapping popped as well
PopPortsFromSource ==
    /\ pc = "pop"
    /\ c' = [c EXCEPT !.ports = RemovePorts(@, ports)]
    /\ component' = [component EXCEPT !.ports = RemovePorts(@, ports)]
    /\ pc' = "return"
    /\ UNCHANGED <<pad, args, ports, pad_port_spacing, i, error, returned>>

\* lines 83-84
PopPorts ==
    /\ pc = "pop"
    /\ c' = [c EXCEPT !.ports = RemovePorts(@, ports)]
    /\ pc' = "return"
    /\ UNCHANGED <<component, pad, args, ports, pad_port_spacing, i, error, returned>>

\* lines 85-86
Return ==
    /\ pc = "return"
    /\ c' = [c EXCEPT !.child_info = TRUE]
    /\ returned' = TRUE
    /\ pc' = "done"
    /\ UNCHANGED <<component, pad, args, ports, pad_port_spacing, i, error>>

Next ==
    \/ SelectPorts
    \/ AddPadSpacing
    \/ PlacePad
    \/ EndLoop
    \/ AddPorts
    \/ PopPorts
    \/ Return

Spec == Init /\ [][Next]_vars

(* --------------------------- properties ------------------------------ *)

Supported == args.port_orientation \in {0, 90, 180, 270}

\* the ports of the output that were taken from a pad, in insertion order
PadPorts == SelectSeq(c.ports, LAMBDA p : p.pin # "ref")

\* the name line 79 is documented to give the k-th selected port (k from 1)
ElecName(k) == "elec-" \o component.name \o "-" \o ToString(k)

\* C1: when the operation returns, the output's port names are exactly the
\* source's port names minus the selected ones, plus one pad port per selected
\* port; the output has as many ports as the source, no selected name
\* remains and every unselected port is present.
C1_PortSetCompleteness ==
    returned =>
        /\ Names(c.ports) =
              (Names(component.ports) \ Names(ports)) \cup { ElecName(k) : k \in 1..Len(ports) }
        /\ Len(c.ports) = Len(component.ports)
        /\ Cardinality(Names(c.ports)) = Len(c.ports)
        /\ Len(PadPorts) = Len(ports)
        /\ Names(ports) \cap Names(c.ports) = {}
        /\ \A k \in DOMAIN component.ports :
              component.ports[k].name \notin Names(ports)
                  => \E m \in DOMAIN c.ports : c.ports[m] = RefPort(component.ports[k])

C1_Witness ==
    /\ returned
    /\ Len(ports) >= 1
    /\ Len(ports) < Len(component.ports)

\* C2: under a supported port_orientation, with d the caller's spacing and h
\* half of the pad's xsize, the pad of a selected port at (x0, y0) is centred
\* at (x0+d+h, y0) for 0, (x0-d-h, y0) for 180, (x0, y0+d+h) for 90 and
\* (x0, y0-d-h) for 270; the port's own orientation plays no part.
C2_PlacementCorrectness ==
    \A k \in DOMAIN c.pads :
        LET d == args.pad_port_spacing
            h == pad.xsize \div 2
            x0 == ports[k].x
            y0 == ports[k].y
            o == args.port_orientation
        IN /\ o = 0 => (c.pads[k].x = x0 + d + h /\ c.pads[k].y = y0)
           /\ o = 180 => (c.pads[k].x = x0 - d - h /\ c.pads[k].y = y0)
           /\ o = 90 => (c.pads[k].x = x0 /\ c.pads[k].y = y0 + d + h)
           /\ o = 270 => (c.pads[k].x = x0 /\ c.pads[k].y = y0 - d - h)

C2_Witness ==
    /\ returned
    /\ args.port_orientation = 180
    /\ \E k \in DOMAIN c.pads : ports[k].orientation = 0 /\ c.pads[k].x < ports[k].x

AllNamesExist ==
    \A k \in DOMAIN args.port_names.names :
        args.port_names.names[k] \in Names(component.ports)

\* C3: a non-empty port_names list whose names all exist makes the operation
\* return a component in which exactly the named ports, in list order, got
\* pads; with port_names None or empty the ports processed are the values of
\* select_ports(ref.ports) in mapping order.
C3_PortNamesPrecedence ==
    /\ (pc = "done" /\ PortNamesGiven(args.port_names) /\ AllNamesExist) =>
          /\ returned
          /\ Len(c.pads) = Len(args.port_names.names)
          /\ \A k \in DOMAIN c.pads : c.pads[k].port = args.port_names.names[k]
    /\ (pc # "start" /\ ~PortNamesGiven(args.port_names)) =>
          ports = SelectSeq(component.ports, LAMBDA p : p.port_type = args.select_ports)

\* C4: a port_names list holding a name the component lacks ends the
\* operation in a lookup error during selection: nothing was placed, routed
\* or exposed, and nothing is returned.
C4_NameResolutionFailure ==
    (/\ pc # "start"
     /\ ~args.port_names.isNone
     /\ \E k \in DOMAIN args.port_names.names :
            args.port_names.names[k] \notin Names(component.ports))
    => /\ pc = "done"
       /\ error = "LookupError"
       /\ ~returned
       /\ c.pads = <<>>
       /\ c.routes = <<>>
       /\ c.ports = <<>>

C4_Witness ==
    /\ error = "LookupError"
    /\ Len(args.port_names.names) = 2
    /\ args.port_names.names[1] \in Names(component.ports)

NoGeneratedNameOnSource ==
    \A k \in 1..Len(component.ports) : ElecName(k) \notin Names(component.ports)

\* C5 as stated: under an unsupported port_orientation the returned output
\* has no pad instance, no routing shape and no new pad port.
C5_Original ==
    (returned /\ ~Supported) =>
        /\ c.pads = <<>>
        /\ c.routes = <<>>
        /\ PadPorts = <<>>

\* C5 as amended: under an unsupported port_orientation no routing shape is
\* ever added and the orientation raises no error, but every selected port
\* still gets a pad instance, left unmoved on the origin, and a pad port
\* elec-<name>-<k> at that pad's centre.
C5_UnsupportedOrientation ==
    ~Supported =>
        /\ c.routes = <<>>
        /\ \A k \in DOMAIN c.pads : c.pads[k].x = 0 /\ c.pads[k].y = 0
        /\ pc \in {"add_ports", "pop", "return"} \/ returned =>
              /\ Len(c.pads) = Len(ports)
              /\ Len(PadPorts) = Len(ports)
              /\ \A k \in DOMAIN PadPorts :
                    /\ PadPorts[k].name = ElecName(k)
                    /\ PadPorts[k].x = 0
                    /\ PadPorts[k].y = 0
        /\ (pc = "done" /\ ~PortNamesGiven(args.port_names) /\ NoGeneratedNameOnSource) =>
              (returned /\ error = "none")

C5_Witness ==
    /\ returned
    /\ ~Supported
    /\ Len(c.pads) >= 2

\* the two-port wire of the concrete scenario
Scenario ==
    /\ component.name = "wire"
    /\ Len(component.ports) = 2
    /\ component.ports[1] =
          [name |-> "e1", x |-> 0, y |-> 0, orientation |-> 180, port_type |-> "electrical"]
    /\ component.ports[2] =
          [name |-> "e2", x |-> 200, y |-> 0, orientation |-> 0, port_type |-> "electrical"]
    /\ args.pad_port_spacing = 50
    /\ args.select_ports = "electrical"
    /\ pad.xsize = 20
    /\ pad.ysize = 20

PortAt(name, x, y) ==
    \E k \in DOMAIN c.ports :
        c.ports[k].name = name /\ c.ports[k].x = x /\ c.ports[k].y = y

\* C6 as stated: one invocation on the scenario returns pad port 1 centred at
\* (-60, 0) and pad port 2 centred at (260, 0), without e1 and e2.
C6_Original ==
    (Scenario /\ returned) =>
        /\ PortAt("elec-wire-1", -60, 0)
        /\ PortAt("elec-wire-2", 260, 0)
        /\ "e1" \notin Names(c.ports)
        /\ "e2" \notin Names(c.ports)

\* C6 as amended: on the scenario, port_orientation=180 gives pad ports at
\* (-60, 0) and (140, 0), port_orientation=0 gives (60, 0) and (260, 0); e1
\* and e2 are absent from every returned output.
C6_ConcreteScenario ==
    (Scenario /\ returned) =>
        /\ args.port_orientation = 180 =>
              (PortAt("elec-wire-1", -60, 0) /\ PortAt("elec-wire-2", 140, 0))
        /\ args.port_orientation = 0 =>
              (PortAt("elec-wire-1", 60, 0) /\ PortAt("elec-wire-2", 260, 0))
        /\ "e1" \notin Names(c.ports)
        /\ "e2" \notin Names(c.ports)
        /\ Len(c.ports) = 2

C6_Witness ==
    /\ Scenario
    /\ returned
    /\ args.port_orientation = 180

\* distance from the port to the pad's near edge, along the connection axis
Gap(k) ==
    LET o == args.port_orientation
        px == c.pads[k].x
        py == c.pads[k].y
    IN IF o = 0 THEN (px - (pad.xsize \div 2)) - ports[k].x
       ELSE IF o = 180 THEN ports[k].x - (px + (pad.xsize \div 2))
       ELSE IF o = 90 THEN (py - (pad.ysize \div 2)) - ports[k].y
       ELSE ports[k].y - (py + (pad.ysize \div 2))

\* C7: under each supported orientation and for any pad, also one whose
\* x-extent differs from its y-extent, the gap between the port and the pad's
\* near edge along the connection axis is the caller's pad_port_spacing.
C7_EffectiveClearance ==
    Supported => \A k \in DOMAIN c.pads : Gap(k) = args.pad_port_spacing

\* C8: the pad port of the k-th selected port (k from 1, in selection order)
\* is named elec-<source component name>-<k>; the new names are pairwise
\* distinct and, once the loop is over, their indices are exactly 1..|S|.
C8_DeterministicNaming ==
    /\ \A k \in DOMAIN PadPorts :
          PadPorts[k].name = "elec-" \o component.name \o "-" \o ToString(k)
    /\ \A k, m \in DOMAIN PadPorts : k # m => PadPorts[k].name # PadPorts[m].name
    /\ Len(PadPorts) = Len(c.pads)
    /\ \A k \in DOMAIN c.pads : c.pads[k].port = ports[k].name
    /\ pc \in {"add_ports", "pop", "return"} \/ returned => Len(PadPorts) = Len(ports)

C8_Witness ==
    /\ returned
    /\ Len(ports) >= 2

\* C9 as stated: the pad port exposed for a selected port is the pad pin that
\* was handed to the routing primitive (0: e1, 180: e3, 90: e4, 270: e2).
C9_Original ==
    Supported =>
        \A k \in DOMAIN PadPorts :
            k \in DOMAIN c.routes => PadPorts[k].pin = c.routes[k].pin

\* C9 as amended: the routing primitive is given the pad pin facing the port
\* (0: e1, 180: e3, 90: e4, 270: e2), lying between the port and the pad
\* centre, while the port exposed on the output is the pad's own "pad" pin at
\* the pad centre.
C9_ExposedPadPort ==
    Supported =>
        /\ Len(c.routes) = Len(c.pads)
        /\ \A k \in DOMAIN c.routes :
              LET o == args.port_orientation
                  r == c.routes[k]
              IN /\ r.port = ports[k].name
                 /\ o = 0 => (r.pin = "e1" /\ r.x = c.pads[k].x - (pad.xsize \div 2) /\ r.y = c.pads[k].y)
                 /\ o = 180 => (r.pin = "e3" /\ r.x = c.pads[k].x + (pad.xsize \div 2) /\ r.y = c.pads[k].y)
                 /\ o = 90 => (r.pin = "e4" /\ r.y = c.pads[k].y - (pad.ysize \div 2) /\ r.x = c.pads[k].x)
                 /\ o = 270 => (r.pin = "e2" /\ r.y = c.pads[k].y + (pad.ysize \div 2) /\ r.x = c.pads[k].x)
        /\ \A k \in DOMAIN PadPorts :
              /\ PadPorts[k].pin = "pad"
              /\ PadPorts[k].x = c.pads[k].x
              /\ PadPorts[k].y = c.pads[k].y

C9_Witness ==
    /\ returned
    /\ args.port_orientation = 270
    /\ Len(c.routes) >= 1

\* C10: no step of the operation, on any outcome, changes the source
\* component's ports, the pad specification or the caller's arguments.
C10_NoMutationOfInput ==
    [][component' = component /\ pad' = pad /\ args' = args]_vars

C10_Witness ==
    /\ returned
    /\ Len(ports) >= 1
    /\ Len(component.ports) > Len(ports)

====
